---- MODULE Spec2Model ----
(***************************************************************************)
(* useStickToBottom (src/src/useStickToBottom.ts, the revision that starts *)
(* at line 391): the lock state, the scroll classifier, the resize         *)
(* reconciler, the spring animator and the behavior merger, together with  *)
(* the host primitives they run on (the scroll element, the resize         *)
(* observer, requestAnimationFrame, setTimeout).                           *)
(*                                                                         *)
(* Lengths are in hundredths of a pixel and the spring constants in        *)
(* hundredths, so 0.5px is 50 and damping 0.7 is 70.  The velocity update  *)
(* is fixed point, rounded up: a positive product stays positive, as it    *)
(* does in the double arithmetic of the source at these magnitudes.        *)
(*                                                                         *)
(* Spec is the hook with its user, its page and its callers; FairSpec is   *)
(* Spec on an event loop that runs what is due; SpringSpec is one run of   *)
(* the default spring towards a fixed target, without user and callers;    *)
(* MergeSpec is mergeBehaviors applied to a list of entries; CallSpec is   *)
(* scrollToBottom called on an attached element at rest; StreamSpec is     *)
(* that element with content growing by equal amounts; EscapedSpec is the  *)
(* hook after the user escaped to the top; EmptySpec is the hook rendered  *)
(* over an empty content box.                                              *)
(***************************************************************************)
EXTENDS Integers, Sequences, FiniteSets, TLC

VARIABLES
  current,            \* scrollRef.current is an element (not null)
  elListeners,        \* handleScroll / handleWheel are registered on the element
  elScrollTop,        \* the element's scrollTop
  scrollHeight,       \* the element's scrollHeight (= height of the content box)
  scrollEvent,        \* the element has a scroll event to dispatch
  resizeObserver,     \* state.resizeObserver observes the content element
  previousHeight,     \* the observer callback's closure variable
  resizeEntry,        \* the observer has a notification to deliver
  optionsRef,         \* optionsRef.current
  lastScrollTop,      \* state.lastScrollTop
  ignoreScrollToTop,  \* state.ignoreScrollToTop
  resizeDifference,   \* state.resizeDifference
  animation,          \* state.animation
  lastTick,           \* state.lastTick
  behavior,           \* state.behavior
  velocity,           \* state.velocity
  accumulated,        \* state.accumulated
  escapedFromLock,    \* state.escapedFromLock
  isAtBottom,         \* state.isAtBottom
  listeners,          \* state.listeners
  rafQueue,           \* callbacks given to requestAnimationFrame, in request order
  timers,             \* callbacks given to setTimeout(.., 1), in request order
  phase,              \* where the event loop is: "task", or inside a rendering update
                      \* ("raf": running frame callbacks, "observe": about to deliver
                      \* the resize observations)
  frameLeft,          \* frame callbacks of this rendering update still to run
  promise,            \* the promises scrollToBottom returned to its callers
  stimuli,            \* history: how many times the user, the page or a caller acted
  runFrames,          \* history: frame callbacks of runs that have run (counted
                      \* where the spring is studied)
  hostTurn,           \* history: flips each time the host runs a callback or
                      \* delivers a notification
  onlyEchoes,         \* history: since the last scrollToBottom call that began with
                      \* the lock not escaped, every scroll notification was an echo
                      \* and no wheel notification arrived
  ev                  \* history: the handler that ran last, and the branch it took

vars == <<current, elListeners, elScrollTop, scrollHeight, scrollEvent, resizeObserver,
          previousHeight, resizeEntry, optionsRef, lastScrollTop, ignoreScrollToTop,
          resizeDifference, animation, lastTick, behavior, velocity, accumulated,
          escapedFromLock, isAtBottom, listeners, rafQueue, timers, phase, frameLeft,
          promise,
          stimuli, runFrames, hostTurn, onlyEchoes, ev>>

----------------------------------------------------------------------------
(* Program constants *)

undefined == -1
MIN_SCROLL_AMOUNT_PX == 50
STICK_TO_BOTTOM_OFFSET_PX == 10000

Spring(d, s, m) == [kind |-> "object", damping |-> d, stiffness |-> s, mass |-> m]
Keyword(k) == [kind |-> k, damping |-> undefined, stiffness |-> undefined, mass |-> undefined]

DEFAULT_SPRING_BEHAVIOR == Spring(70, 5, 125)

----------------------------------------------------------------------------
(* Bounds of the model *)

MaxStimuli == 2       \* acts of the user, the page and the callers in one behaviour
MaxCalls == 2         \* promises of external callers pending at one time
MaxRunFrames == 28    \* frames the run of the spring studied alone may take
MaxBehaviors == 3      \* entries of a list given to mergeBehaviors studied alone
ClientHeight == 10000 \* the viewport's clientHeight

BaseHeight == ClientHeight + 15000
\* The heights the content takes: a sub-pixel shrink, the base, 50px more.
ContentHeights == {BaseHeight - 30, BaseHeight, BaseHeight + 5000}
TickDeltas == {1, 2}  \* elapsed sixtieths of a second between two frames

\* Where the element is when the spring is studied alone: 5px and 20px above the
\* target of the base height.
SpringStarts == {BaseHeight - ClientHeight - MIN_SCROLL_AMOUNT_PX - d : d \in {500, 2000}}
WheelDeltas == {-1, 1}

\* What a caller may pass as scrollBehavior.
CallBehaviors == {Keyword("undefined"), Keyword("instant")}

\* What the component may be configured with.
OptionsSet ==
  { [damping |-> undefined, stiffness |-> 100, mass |-> 100,
     resizeBehavior |-> Keyword("undefined"), initialBehavior |-> i] :
    i \in {Keyword("undefined"), Keyword("instant")} }

Min(a, b) == IF a < b THEN a ELSE b
Max(a, b) == IF a > b THEN a ELSE b
CeilDiv(a, b) == (a + b - 1) \div b

----------------------------------------------------------------------------
(* The program state and the host state as one record, so that a handler *)
(* is a function from record to record and handlers compose as calls do.  *)

World ==
  [current |-> current, elListeners |-> elListeners, elScrollTop |-> elScrollTop,
   scrollHeight |-> scrollHeight, scrollEvent |-> scrollEvent,
   resizeObserver |-> resizeObserver, previousHeight |-> previousHeight,
   resizeEntry |-> resizeEntry, optionsRef |-> optionsRef,
   lastScrollTop |-> lastScrollTop, ignoreScrollToTop |-> ignoreScrollToTop,
   resizeDifference |-> resizeDifference, animation |-> animation, lastTick |-> lastTick,
   behavior |-> behavior, velocity |-> velocity, accumulated |-> accumulated,
   escapedFromLock |-> escapedFromLock, isAtBottom |-> isAtBottom,
   listeners |-> listeners, rafQueue |-> rafQueue, timers |-> timers,
   phase |-> phase, frameLeft |-> frameLeft]

\* A scheduled callback: its kind and what its closure captured.
Callback(kind, id, captured, b, target, top, ignore, last) ==
  [kind |-> kind, id |-> id, captured |-> captured, behavior |-> b,
   targetScrollTop |-> target, scrollTop |-> top, ignoreScrollToTop |-> ignore,
   lastScrollTop |-> last]

----------------------------------------------------------------------------
(* Host primitives *)

\* The largest scrollTop the element accepts.
MaxScrollTop(w) == Max(0, w.scrollHeight - ClientHeight)

\* Where the user may leave the viewport: the top, near the bottom, the very end.
UserOffsets(w) == {0, MaxScrollTop(w) - 3000, MaxScrollTop(w)}

\* element.scrollTop = v: the element clamps into its scroll range and, when the
\* position changes and a listener is registered, has a scroll event to dispatch.
ElementSetScrollTop(w, v) ==
  LET stored == Max(0, Min(v, MaxScrollTop(w)))
  IN [w EXCEPT !.elScrollTop = stored,
               !.scrollEvent = @ \/ (stored # w.elScrollTop /\ w.elListeners)]

\* requestAnimationFrame handles: the smallest one no pending callback holds.
FreshHandle(w) ==
  CHOOSE n \in 1..(Len(w.rafQueue) + 1) :
    /\ \A i \in 1..Len(w.rafQueue) : w.rafQueue[i].id # n
    /\ \A m \in 1..(n - 1) : \E i \in 1..Len(w.rafQueue) : w.rafQueue[i].id = m

requestAnimationFrame(w, cb) == [w EXCEPT !.rafQueue = Append(@, cb)]

cancelAnimationFrame(w, id) ==
  [w EXCEPT !.rafQueue = SelectSeq(@, LAMBDA c : c.id # id)]

setTimeout(w, cb) == [w EXCEPT !.timers = Append(@, cb)]

\* performance.now(): only its identity and the elapsed time are read.  A new
\* reading differs from state.lastTick and from every reading a pending callback
\* captured.
FreshTick(w) ==
  CHOOSE n \in 1..(Len(w.rafQueue) + 2) :
    /\ n # w.lastTick
    /\ \A i \in 1..Len(w.rafQueue) :
         w.rafQueue[i].kind = "lastTickReset" => w.rafQueue[i].captured # n
    /\ \A m \in 1..(n - 1) :
         \/ m = w.lastTick
         \/ \E i \in 1..Len(w.rafQueue) :
              w.rafQueue[i].kind = "lastTickReset" /\ w.rafQueue[i].captured = m

----------------------------------------------------------------------------
(* state getters and setters *)

getScrollTop(w) == IF w.current THEN w.elScrollTop ELSE 0

targetScrollTop(w) ==
  IF ~w.current THEN 0 ELSE w.scrollHeight - MIN_SCROLL_AMOUNT_PX - ClientHeight

scrollDifference(w) == targetScrollTop(w) - getScrollTop(w)

isNearBottom(w) == scrollDifference(w) <= STICK_TO_BOTTOM_OFFSET_PX

\* The setter without the cap of lines 498-500.
setScrollTopUncapped(w, scrollTop) ==
  IF w.current
    THEN LET w1 == ElementSetScrollTop(w, scrollTop)
         IN [w1 EXCEPT !.ignoreScrollToTop = w1.elScrollTop]
    ELSE w

setScrollTop(w, scrollTop) ==
  LET clamped == IF scrollTop > targetScrollTop(w) THEN targetScrollTop(w) ELSE scrollTop
  IN IF w.current
       THEN LET w1 == ElementSetScrollTop(w, clamped)
            IN [w1 EXCEPT !.ignoreScrollToTop = w1.elScrollTop]
       ELSE w

\* The recompute of the revision at line 76, which reported proximity while escaped.
updateIsAtBottomProximityWhileEscaped(w, arg) ==
  [w EXCEPT !.isAtBottom =
     IF arg = "null"
       THEN (IF w.escapedFromLock THEN isNearBottom(w) ELSE isNearBottom(w) \/ w.isAtBottom)
       ELSE arg = "true"]

\* The recompute from the lock and the proximity alone, without `|| state.isAtBottom`.
updateIsAtBottomByProximity(w, arg) ==
  [w EXCEPT !.isAtBottom =
     IF arg = "null"
       THEN (IF w.escapedFromLock THEN FALSE ELSE isNearBottom(w))
       ELSE arg = "true"]

\* updateIsAtBottom(isAtBottom?): "null" stands for a call without argument.
updateIsAtBottom(w, arg) ==
  [w EXCEPT !.isAtBottom =
     IF arg = "null"
       THEN (IF w.escapedFromLock THEN FALSE ELSE isNearBottom(w) \/ w.isAtBottom)
       ELSE arg = "true"]

setEscapedFromLock(w, escaped) == [w EXCEPT !.escapedFromLock = escaped]

----------------------------------------------------------------------------
(* mergeBehaviors *)

\* `??` with its operands exchanged.
CoalesceExchanged(a, b) == IF b # undefined THEN b ELSE a

Coalesce(a, b) == IF a # undefined THEN a ELSE b

\* The loop starting over from the defaults at an "instant" entry.
RECURSIVE mergeLoopResetting(_, _, _)
mergeLoopResetting(behaviors, result, instant) ==
  IF behaviors = <<>>
    THEN (IF instant THEN Keyword("instant") ELSE result)
    ELSE LET b == Head(behaviors)
         IN IF b.kind = "instant"
              THEN mergeLoopResetting(Tail(behaviors), DEFAULT_SPRING_BEHAVIOR, TRUE)
            ELSE IF b.kind # "object" THEN mergeLoopResetting(Tail(behaviors), result, FALSE)
            ELSE mergeLoopResetting(Tail(behaviors),
                                    Spring(Coalesce(b.damping, result.damping),
                                           Coalesce(b.stiffness, result.stiffness),
                                           Coalesce(b.mass, result.mass)),
                                    FALSE)

RECURSIVE mergeLoop(_, _, _)
mergeLoop(behaviors, result, instant) ==
  IF behaviors = <<>>
    THEN (IF instant THEN Keyword("instant") ELSE result)
    ELSE LET b == Head(behaviors)
         IN IF b.kind = "instant" THEN mergeLoop(Tail(behaviors), result, TRUE)
            ELSE IF b.kind # "object" THEN mergeLoop(Tail(behaviors), result, FALSE)
            ELSE mergeLoop(Tail(behaviors),
                           Spring(Coalesce(b.damping, result.damping),
                                  Coalesce(b.stiffness, result.stiffness),
                                  Coalesce(b.mass, result.mass)),
                           FALSE)

mergeBehaviors(behaviors) == mergeLoop(behaviors, DEFAULT_SPRING_BEHAVIOR, FALSE)

\* optionsRef.current passed as an entry: an object with the three spring fields.
OptionsEntry(w) ==
  Spring(w.optionsRef.damping, w.optionsRef.stiffness, w.optionsRef.mass)

----------------------------------------------------------------------------
(* scrollComplete and scrollToBottom *)

NoBehavior == Keyword("undefined")

\* A callback that captured one number (a tick, a resize difference).
Capturing(w, kind, captured) ==
  Callback(kind, FreshHandle(w), captured, NoBehavior, 0, 0, undefined, 0)

\* The frame callback of a run: its closure holds behavior and targetScrollTop.
AnimateScrollCallback(w, b, target) ==
  Callback("animateScroll", FreshHandle(w), 0, b, target, 0, undefined, 0)

\* scrollComplete without lines 541-542: the listeners are neither called nor cleared.
scrollCompleteKeepingListeners(w, beforeNewAnimation) ==
  LET w1 == IF beforeNewAnimation /\ w.animation # undefined
              THEN cancelAnimationFrame(w, w.animation)
              ELSE w
      w2 == [w1 EXCEPT !.accumulated = 0,
                       !.animation = undefined,
                       !.behavior = NoBehavior]
  IN IF beforeNewAnimation
       THEN w2
       ELSE requestAnimationFrame(w2, Capturing(w2, "lastTickReset", w2.lastTick))

scrollComplete(w, beforeNewAnimation) ==
  LET w1 == IF beforeNewAnimation /\ w.animation # undefined
              THEN cancelAnimationFrame(w, w.animation)
              ELSE w
      w2 == [w1 EXCEPT !.accumulated = 0,
                       !.animation = undefined,
                       !.behavior = NoBehavior,
                       !.listeners = {}]
  IN IF beforeNewAnimation
       THEN w2
       ELSE requestAnimationFrame(w2, Capturing(w2, "lastTickReset", w2.lastTick))

\* The callback scrollComplete left: forget the last tick and the velocity when no
\* frame has ticked since.
lastTickReset(w, cb) ==
  IF cb.captured = w.lastTick
    THEN [w EXCEPT !.lastTick = undefined, !.velocity = 0]
    ELSE w

\* scrollToBottom merging the behavior of the run over the one of the call.
scrollToBottomRunOverCall(w, scrollBehavior, waitForPendingScroll, waiter) ==
  LET w1 == updateIsAtBottom(w, "true")
      w2 == IF ~waitForPendingScroll THEN scrollComplete(w1, TRUE) ELSE w1
      merged == mergeBehaviors(<<OptionsEntry(w2), scrollBehavior, w2.behavior>>)
      w3 == [w2 EXCEPT !.behavior = merged]
      cb == AnimateScrollCallback(w3, merged, targetScrollTop(w3))
      w4 == IF w3.animation = undefined
              THEN [requestAnimationFrame(w3, cb) EXCEPT !.animation = cb.id]
              ELSE w3
  IN [w4 EXCEPT !.listeners = @ \cup {waiter}]

\* scrollToBottom returning at once when state.isAtBottom is false.
scrollToBottomOnlyIfAlready(w, scrollBehavior, waitForPendingScroll, waiter) ==
  IF ~w.isAtBottom THEN w
  ELSE
  LET w1 == updateIsAtBottom(w, "true")
      w2 == IF ~waitForPendingScroll THEN scrollComplete(w1, TRUE) ELSE w1
      merged == mergeBehaviors(<<OptionsEntry(w2), w2.behavior, scrollBehavior>>)
      w3 == [w2 EXCEPT !.behavior = merged]
      cb == AnimateScrollCallback(w3, merged, targetScrollTop(w3))
      w4 == IF w3.animation = undefined
              THEN [requestAnimationFrame(w3, cb) EXCEPT !.animation = cb.id]
              ELSE w3
  IN [w4 EXCEPT !.listeners = @ \cup {waiter}]

\* scrollToBottom recomputing isAtBottom from the lock and the geometry instead of
\* setting it.
scrollToBottomRecomputing(w, scrollBehavior, waitForPendingScroll, waiter) ==
  LET w1 == updateIsAtBottom(w, "null")
      w2 == IF ~waitForPendingScroll THEN scrollComplete(w1, TRUE) ELSE w1
      merged == mergeBehaviors(<<OptionsEntry(w2), w2.behavior, scrollBehavior>>)
      w3 == [w2 EXCEPT !.behavior = merged]
      cb == AnimateScrollCallback(w3, merged, targetScrollTop(w3))
      w4 == IF w3.animation = undefined
              THEN [requestAnimationFrame(w3, cb) EXCEPT !.animation = cb.id]
              ELSE w3
  IN [w4 EXCEPT !.listeners = @ \cup {waiter}]

\* scrollToBottom(scrollBehavior, waitForPendingScroll), up to its await; `waiter`
\* is the resolve function it adds to state.listeners.
scrollToBottom(w, scrollBehavior, waitForPendingScroll, waiter) ==
  LET w1 == updateIsAtBottom(w, "true")
      w2 == IF ~waitForPendingScroll THEN scrollComplete(w1, TRUE) ELSE w1
      merged == mergeBehaviors(<<OptionsEntry(w2), w2.behavior, scrollBehavior>>)
      w3 == [w2 EXCEPT !.behavior = merged]
      cb == AnimateScrollCallback(w3, merged, targetScrollTop(w3))
      w4 == IF w3.animation = undefined
              THEN [requestAnimationFrame(w3, cb) EXCEPT !.animation = cb.id]
              ELSE w3
  IN [w4 EXCEPT !.listeners = @ \cup {waiter}]

----------------------------------------------------------------------------
(* animateScroll *)

Interrupted(w) == ~w.isAtBottom

ReachedTarget(w, cb) ==
  getScrollTop(w) >= Min(cb.targetScrollTop, targetScrollTop(w))

StillBelowTarget(w) == getScrollTop(w) < targetScrollTop(w)

\* The velocity with the spring's force taken from the target to the offset.
SpringVelocityReversed(w, cb) ==
  CeilDiv(cb.behavior.damping * w.velocity - cb.behavior.stiffness * scrollDifference(w),
          cb.behavior.mass)

\* The spring step of one frame; tickDelta is the elapsed time in sixtieths of a
\* second, 0 when state.lastTick is undefined.
SpringVelocity(w, cb) ==
  CeilDiv(cb.behavior.damping * w.velocity + cb.behavior.stiffness * scrollDifference(w),
          cb.behavior.mass)

springStep(w, cb, tickDelta) ==
  LET tick == FreshTick(w)
      v == SpringVelocity(w, cb)
      acc == w.accumulated + v * tickDelta
      w1 == [w EXCEPT !.velocity = v, !.accumulated = acc]
      w2 == setScrollTop(w1, getScrollTop(w1) + acc)
      w3 == [w2 EXCEPT !.lastTick = tick,
                       !.accumulated = IF acc >= MIN_SCROLL_AMOUNT_PX THEN 0 ELSE acc]
      next == AnimateScrollCallback(w3, cb.behavior, cb.targetScrollTop)
  IN [requestAnimationFrame(w3, next) EXCEPT !.animation = next.id]

\* The frame callback without the call of line 588.
animateScrollWithoutFollowUp(w, cb, tickDelta) ==
  LET w0 == [w EXCEPT !.animation = undefined]
  IN IF Interrupted(w0) THEN scrollComplete(w0, FALSE)
     ELSE IF ReachedTarget(w0, cb) THEN scrollComplete(w0, FALSE)
     ELSE IF cb.behavior.kind = "instant"
       THEN scrollComplete(setScrollTop(w0, targetScrollTop(w0)), FALSE)
     ELSE springStep(w0, cb, tickDelta)

\* The frame callback without the test of line 573.
animateScrollUninterrupted(w, cb, tickDelta) ==
  LET w0 == [w EXCEPT !.animation = undefined]
  IN IF ReachedTarget(w0, cb)
       THEN LET resize == mergeBehaviors(<<OptionsEntry(w0), w0.optionsRef.resizeBehavior>>)
                w1 == IF StillBelowTarget(w0)
                        THEN scrollToBottom(w0, resize, TRUE, 0)
                        ELSE w0
            IN scrollComplete(w1, FALSE)
     ELSE IF cb.behavior.kind = "instant"
       THEN scrollComplete(setScrollTop(w0, targetScrollTop(w0)), FALSE)
     ELSE springStep(w0, cb, tickDelta)

\* The frame callback whose jump goes to the target the call captured.
animateScrollJumpingToCaptured(w, cb, tickDelta) ==
  LET w0 == [w EXCEPT !.animation = undefined]
  IN IF Interrupted(w0) THEN scrollComplete(w0, FALSE)
     ELSE IF ReachedTarget(w0, cb)
       THEN LET resize == mergeBehaviors(<<OptionsEntry(w0), w0.optionsRef.resizeBehavior>>)
                w1 == IF StillBelowTarget(w0)
                        THEN scrollToBottom(w0, resize, TRUE, 0)
                        ELSE w0
            IN scrollComplete(w1, FALSE)
     ELSE IF cb.behavior.kind = "instant"
       THEN scrollComplete(setScrollTop(w0, cb.targetScrollTop), FALSE)
     ELSE springStep(w0, cb, tickDelta)

animateScroll(w, cb, tickDelta) ==
  LET w0 == [w EXCEPT !.animation = undefined]
  IN IF Interrupted(w0) THEN scrollComplete(w0, FALSE)
     ELSE IF ReachedTarget(w0, cb)
       THEN LET resize == mergeBehaviors(<<OptionsEntry(w0), w0.optionsRef.resizeBehavior>>)
                w1 == IF StillBelowTarget(w0)
                        THEN scrollToBottom(w0, resize, TRUE, 0)
                        ELSE w0
            IN scrollComplete(w1, FALSE)
     ELSE IF cb.behavior.kind = "instant"
       THEN scrollComplete(setScrollTop(w0, targetScrollTop(w0)), FALSE)
     ELSE springStep(w0, cb, tickDelta)

AnimateBranch(w, cb) ==
  IF Interrupted(w) THEN "interrupted"
  ELSE IF ReachedTarget(w, cb) THEN (IF StillBelowTarget(w) THEN "followUp" ELSE "completed")
  ELSE IF cb.behavior.kind = "instant" THEN "instant"
  ELSE "step"

----------------------------------------------------------------------------
(* handleScroll, its deferred evaluation, and handleWheel *)

\* The closure without the adjustment of lines 632-639.
ScrollEvalCallbackUncorrected(w) ==
  LET scrollTop == getScrollTop(w)
      previous == IF w.lastScrollTop # undefined THEN w.lastScrollTop ELSE scrollTop
  IN Callback("scrollEval", 0, previous, NoBehavior, targetScrollTop(w), scrollTop,
              w.ignoreScrollToTop, previous)

\* The closure of the deferred evaluation holds targetScrollTop, scrollTop,
\* ignoreScrollToTop and lastScrollTop; `captured` keeps the value lastScrollTop
\* had before the adjustment of line 638, the offset of the previous notification.
ScrollEvalCallback(w) ==
  LET scrollTop == getScrollTop(w)
      ignore == w.ignoreScrollToTop
      previous == IF w.lastScrollTop # undefined THEN w.lastScrollTop ELSE scrollTop
      last == IF ignore # undefined /\ ignore # 0 /\ ignore > scrollTop
                THEN ignore
                ELSE previous
  IN Callback("scrollEval", 0, previous, NoBehavior, targetScrollTop(w), scrollTop,
              ignore, last)

Overscrolled(cb) == cb.scrollTop > cb.targetScrollTop

\* The test of line 661 without its second operand.
IgnoredWithoutEchoTest(w, cb) == w.resizeDifference # 0

\* The test of line 661 without its first operand.
IgnoredWithoutResizeTest(w, cb) == cb.scrollTop = cb.ignoreScrollToTop

Ignored(w, cb) == w.resizeDifference # 0 \/ cb.scrollTop = cb.ignoreScrollToTop

\* The classification reading state.lastScrollTop when it runs, which handleScroll
\* has by then overwritten, instead of the value its closure holds.
classifyScrollAgainstStored(w, cb) ==
  LET isScrollingDown == cb.scrollTop > w.lastScrollTop
      isScrollingUp == cb.scrollTop < w.lastScrollTop
      w1 == IF ~w.escapedFromLock /\ isScrollingUp THEN setEscapedFromLock(w, TRUE)
            ELSE IF w.escapedFromLock /\ isScrollingDown THEN setEscapedFromLock(w, FALSE)
            ELSE w
  IN updateIsAtBottom(w1, "null")

classifyScroll(w, cb) ==
  LET isScrollingDown == cb.scrollTop > cb.lastScrollTop
      isScrollingUp == cb.scrollTop < cb.lastScrollTop
      w1 == IF ~w.escapedFromLock /\ isScrollingUp THEN setEscapedFromLock(w, TRUE)
            ELSE IF w.escapedFromLock /\ isScrollingDown THEN setEscapedFromLock(w, FALSE)
            ELSE w
  IN updateIsAtBottom(w1, "null")

\* The evaluation without the return of line 655.
scrollEvalFallingThrough(w, cb) ==
  LET w1 == IF Overscrolled(cb) THEN setScrollTop(w, cb.targetScrollTop) ELSE w
  IN IF Ignored(w1, cb) THEN w1 ELSE classifyScroll(w1, cb)

\* The setTimeout callback of handleScroll.
scrollEval(w, cb) ==
  IF Overscrolled(cb) THEN setScrollTop(w, cb.targetScrollTop)
  ELSE IF Ignored(w, cb) THEN w
  ELSE classifyScroll(w, cb)

\* The handler evaluating the notification when it arrives, before the timeout.
handleScrollUndeferred(w) ==
  LET cb == ScrollEvalCallback(w)
      w1 == [w EXCEPT !.lastScrollTop = cb.scrollTop, !.ignoreScrollToTop = undefined]
  IN setTimeout(scrollEval(w1, cb), cb)

handleScroll(w) ==
  LET cb == ScrollEvalCallback(w)
      w1 == [w EXCEPT !.lastScrollTop = cb.scrollTop, !.ignoreScrollToTop = undefined]
  IN setTimeout(w1, cb)

ScrollEvalBranch(w, cb) ==
  IF Overscrolled(cb) THEN "overscroll"
  ELSE IF w.resizeDifference # 0 THEN "suppressed"
  ELSE IF cb.scrollTop = cb.ignoreScrollToTop THEN "echo"
  ELSE "classified"

\* Whether the reported offset is below (-1), at (0) or above (1) the offset of
\* the previous notification.
Direction(cb) ==
  IF cb.scrollTop < cb.captured THEN -1 ELSE IF cb.scrollTop > cb.captured THEN 1 ELSE 0

\* The handler without the test of line 684.
handleWheelAnyDelta(w, deltaY) == updateIsAtBottom(setEscapedFromLock(w, TRUE), "false")

handleWheel(w, deltaY) ==
  IF deltaY < 0
    THEN updateIsAtBottom(setEscapedFromLock(w, TRUE), "false")
    ELSE w

----------------------------------------------------------------------------
(* scrollRef, contentRef and the ResizeObserver callback *)

\* scrollRef(scroll): useRefCallback stores the ref first, so the two
\* removeEventListener calls address the element just stored.
scrollRef(w, scroll) ==
  [w EXCEPT !.current = scroll,
            !.elListeners = IF scroll THEN TRUE ELSE @]

\* entry.contentRect.height: the height of the content box, which is the element's
\* scrollHeight while the content overflows the viewport; an element whose
\* scrollHeight is its clientHeight holds an empty content box, of height 0.
ContentHeight(w) == IF w.scrollHeight = ClientHeight THEN 0 ELSE w.scrollHeight

\* contentRef(content): disconnects the old observer and, for an element, observes
\* it with a fresh closure; observing delivers a first notification.
contentRef(w, content) ==
  [w EXCEPT !.resizeObserver = content,
            !.resizeEntry = content,
            !.previousHeight = undefined]

\* The observer callback without the test of line 717.
resizeCallbackUnguarded(w) ==
  LET height == ContentHeight(w)
      difference == height - (IF w.previousHeight # undefined THEN w.previousHeight
                              ELSE height)
      w1 == [w EXCEPT !.resizeDifference = difference]
      chosen == IF w.previousHeight # undefined /\ w.previousHeight # 0
                  THEN w1.optionsRef.resizeBehavior
                  ELSE w1.optionsRef.initialBehavior
      w2 == IF difference >= 0
              THEN scrollToBottom(w1, mergeBehaviors(<<OptionsEntry(w1), chosen>>), TRUE, 0)
              ELSE (IF isNearBottom(w1)
                      THEN updateIsAtBottom(setEscapedFromLock(w1, FALSE), "null")
                      ELSE w1)
      w3 == [w2 EXCEPT !.previousHeight = height]
  IN requestAnimationFrame(w3, Capturing(w3, "resizeReset", difference))

\* The observer callback whose shrink branch recomputes isAtBottom without
\* clearing the lock first.
resizeCallbackKeepingLock(w) ==
  LET height == ContentHeight(w)
      difference == height - (IF w.previousHeight # undefined THEN w.previousHeight
                              ELSE height)
      w1 == [w EXCEPT !.resizeDifference = difference]
      chosen == IF w.previousHeight # undefined /\ w.previousHeight # 0
                  THEN w1.optionsRef.resizeBehavior
                  ELSE w1.optionsRef.initialBehavior
      w2 == IF difference >= 0
              THEN (IF w1.isAtBottom
                      THEN scrollToBottom(w1, mergeBehaviors(<<OptionsEntry(w1), chosen>>),
                                          TRUE, 0)
                      ELSE w1)
              ELSE (IF isNearBottom(w1)
                      THEN updateIsAtBottom(w1, "null")
                      ELSE w1)
      w3 == [w2 EXCEPT !.previousHeight = height]
  IN requestAnimationFrame(w3, Capturing(w3, "resizeReset", difference))

resizeCallback(w) ==
  LET height == ContentHeight(w)
      difference == height - (IF w.previousHeight # undefined THEN w.previousHeight
                              ELSE height)
      w1 == [w EXCEPT !.resizeDifference = difference]
      chosen == IF w.previousHeight # undefined /\ w.previousHeight # 0
                  THEN w1.optionsRef.resizeBehavior
                  ELSE w1.optionsRef.initialBehavior
      w2 == IF difference >= 0
              THEN (IF w1.isAtBottom
                      THEN scrollToBottom(w1, mergeBehaviors(<<OptionsEntry(w1), chosen>>),
                                          TRUE, 0)
                      ELSE w1)
              ELSE (IF isNearBottom(w1)
                      THEN updateIsAtBottom(setEscapedFromLock(w1, FALSE), "null")
                      ELSE w1)
      w3 == [w2 EXCEPT !.previousHeight = height]
  IN requestAnimationFrame(w3, Capturing(w3, "resizeReset", difference))

\* The frame callback of the observer callback setting no timer.
resizeResetWithoutTimer(w, cb) == w

\* The requestAnimationFrame callback of the observer callback: defers the reset.
resizeReset(w, cb) ==
  setTimeout(w, Callback("resizeClear", 0, cb.captured, NoBehavior, 0, 0, undefined, 0))

\* The setTimeout callback inside it.
resizeClear(w, cb) ==
  IF w.resizeDifference = cb.captured THEN [w EXCEPT !.resizeDifference = 0] ELSE w

----------------------------------------------------------------------------
(* The promises of the external callers.  A caller's resolve function is its  *)
(* slot number in state.listeners; the internal calls (resize, follow-up),    *)
(* whose promises nobody reads, all add 0.  A promise continues after the     *)
(* handler that resolved it has returned, and reads state.isAtBottom then.    *)

Idle == [st |-> "idle", targetScrollTop |-> 0, reached |-> FALSE]

FreeSlots == {i \in 1..MaxCalls : promise[i].st # "pending"}

Settle(p, w2) ==
  [i \in 1..MaxCalls |->
     IF p[i].st = "pending" /\ i \notin w2.listeners
       THEN [st |-> IF w2.isAtBottom THEN "true" ELSE "false",
             targetScrollTop |-> 0,
             reached |-> getScrollTop(w2) >= Min(p[i].targetScrollTop, targetScrollTop(w2))]
       ELSE p[i]]

Event(op, branch, arg) == [op |-> op, branch |-> branch, arg |-> arg]

\* The step to world w2.
Commit(w2) ==
  /\ current' = w2.current
  /\ elListeners' = w2.elListeners
  /\ elScrollTop' = w2.elScrollTop
  /\ scrollHeight' = w2.scrollHeight
  /\ scrollEvent' = w2.scrollEvent
  /\ resizeObserver' = w2.resizeObserver
  /\ previousHeight' = w2.previousHeight
  /\ resizeEntry' = w2.resizeEntry
  /\ optionsRef' = w2.optionsRef
  /\ lastScrollTop' = w2.lastScrollTop
  /\ ignoreScrollToTop' = w2.ignoreScrollToTop
  /\ resizeDifference' = w2.resizeDifference
  /\ animation' = w2.animation
  /\ lastTick' = w2.lastTick
  /\ behavior' = w2.behavior
  /\ velocity' = w2.velocity
  /\ accumulated' = w2.accumulated
  /\ escapedFromLock' = w2.escapedFromLock
  /\ isAtBottom' = w2.isAtBottom
  /\ listeners' = w2.listeners
  /\ rafQueue' = w2.rafQueue
  /\ timers' = w2.timers
  /\ phase' = w2.phase
  /\ frameLeft' = w2.frameLeft

\* A step of the host: a callback or a notification runs.
Step(w2, e, echoes) ==
  /\ Commit(w2)
  /\ promise' = Settle(promise, w2)
  /\ onlyEchoes' = echoes
  /\ ev' = e
  /\ hostTurn' = ~hostTurn
  /\ UNCHANGED <<stimuli, runFrames>>

\* A step the user, the page or a caller takes.
Stimulus(w2, e, echoes) ==
  /\ phase = "task"
  /\ stimuli < MaxStimuli
  /\ Commit(w2)
  /\ promise' = Settle(promise, w2)
  /\ onlyEchoes' = echoes
  /\ ev' = e
  /\ stimuli' = stimuli + 1
  /\ UNCHANGED <<hostTurn, runFrames>>

----------------------------------------------------------------------------
(* Initial state: the hook has rendered, no ref is attached yet. *)

\* The hook has rendered with the given options; the element, not yet attached,
\* is at the given offset.
InitWith(options, top) ==
  /\ current = FALSE
  /\ elListeners = FALSE
  /\ elScrollTop = top
  /\ scrollHeight = BaseHeight
  /\ scrollEvent = FALSE
  /\ resizeObserver = FALSE
  /\ previousHeight = undefined
  /\ resizeEntry = FALSE
  /\ optionsRef = options
  /\ lastScrollTop = undefined
  /\ ignoreScrollToTop = undefined
  /\ resizeDifference = 0
  /\ animation = undefined
  /\ lastTick = undefined
  /\ behavior = NoBehavior
  /\ velocity = 0
  /\ accumulated = 0
  /\ escapedFromLock = FALSE
  /\ isAtBottom = TRUE
  /\ listeners = {}
  /\ rafQueue = <<>>
  /\ timers = <<>>
  /\ phase = "task"
  /\ frameLeft = 0
  /\ promise = [i \in 1..MaxCalls |-> Idle]
  /\ stimuli = 0
  /\ runFrames = 0
  /\ hostTurn = FALSE
  /\ onlyEchoes = TRUE
  /\ ev = Event("init", "", 0)

Init == \E options \in OptionsSet : InitWith(options, 0)

----------------------------------------------------------------------------
(* The refs.  React attaches both refs in the commit that mounts the        *)
(* component, the content (the child) first, and calls both with null in the *)
(* commit that unmounts it.                                                  *)

Mount ==
  /\ phase = "task"
  /\ ~current
  /\ ~resizeObserver
  /\ Commit(scrollRef(contentRef(World, TRUE), TRUE))
  /\ ev' = Event("mount", "", 0)
  /\ UNCHANGED <<promise, stimuli, runFrames, hostTurn, onlyEchoes>>

Unmount ==
  /\ current
  /\ resizeObserver
  /\ Stimulus(scrollRef(contentRef(World, FALSE), FALSE), Event("unmount", "", 0),
              onlyEchoes)

----------------------------------------------------------------------------
(* The user and the page *)

\* The user moves the viewport (scrollbar, touch, keyboard).
UserScroll ==
  \E v \in UserOffsets(World) :
    /\ v # elScrollTop
    /\ Stimulus(ElementSetScrollTop(World, v), Event("userScroll", "", v), onlyEchoes)

\* A wheel notification.
Wheel ==
  \E deltaY \in WheelDeltas :
    /\ elListeners
    /\ Stimulus(handleWheel(World, deltaY), Event("handleWheel", "", deltaY), FALSE)

\* The content box changes height.  The observer, if any, has a notification to
\* deliver; the browser keeps the position in range and, when it anchors the
\* visible content, moves the position by the change.
ContentResize ==
  \E h \in ContentHeights \ {scrollHeight}, anchored \in BOOLEAN :
    LET w1 == [World EXCEPT !.scrollHeight = h, !.resizeEntry = resizeObserver]
        top == IF anchored THEN elScrollTop + (h - scrollHeight) ELSE elScrollTop
    IN Stimulus(ElementSetScrollTop(w1, top),
            Event("contentResize", IF anchored THEN "anchored" ELSE "", h - scrollHeight),
            onlyEchoes)

----------------------------------------------------------------------------
(* The event loop.  A rendering update dispatches the scroll event, then runs  *)
(* the frame callbacks that were queued when it began, in request order, then *)
(* delivers the resize observations; tasks (timers, input, callers) run        *)
(* between rendering updates.  A position that changes after the scroll step  *)
(* of an update has its event dispatched by a later update, so an update may   *)
(* begin past its scroll step.                                                 *)

\* The update moves on to its frame callbacks, to the observations, or ends.
ToFrameCallbacks(w) ==
  IF w.rafQueue # <<>> THEN [w EXCEPT !.phase = "raf", !.frameLeft = Len(w.rafQueue)]
  ELSE IF w.resizeEntry /\ w.resizeObserver THEN [w EXCEPT !.phase = "observe"]
  ELSE [w EXCEPT !.phase = "task"]

\* World in which the callback at the head of the frame queue is about to run.
FrameHead(w) ==
  LET w1 == IF w.phase = "task" THEN [w EXCEPT !.frameLeft = Len(w.rafQueue)] ELSE w
  IN [w1 EXCEPT !.rafQueue = Tail(@), !.frameLeft = @ - 1, !.phase = "raf"]

\* After a frame callback: more callbacks of this update, the observations, or the end.
FrameNext(w) ==
  IF w.frameLeft > 0 THEN w
  ELSE IF w.resizeEntry /\ w.resizeObserver THEN [w EXCEPT !.phase = "observe"]
  ELSE [w EXCEPT !.phase = "task"]

InFrameCallbacks(kind) ==
  /\ rafQueue # <<>>
  /\ Head(rafQueue).kind = kind
  /\ phase = "task" \/ (phase = "raf" /\ frameLeft > 0)

\* The element dispatches its scroll event: handleScroll runs.
DeliverScroll ==
  /\ phase = "task"
  /\ scrollEvent
  /\ Step(ToFrameCallbacks(handleScroll([World EXCEPT !.scrollEvent = FALSE])),
          Event("handleScroll",
                IF getScrollTop(World) = ignoreScrollToTop THEN "echo" ELSE "", 0),
          onlyEchoes /\ getScrollTop(World) = ignoreScrollToTop)

\* The observer delivers its notification: the ResizeObserver callback runs.
DeliverResize ==
  /\ resizeEntry
  /\ resizeObserver
  /\ phase = "observe" \/ (phase = "task" /\ rafQueue = <<>>)
  /\ Step([resizeCallback([World EXCEPT !.resizeEntry = FALSE]) EXCEPT !.phase = "task"],
          Event("resizeCallback",
                IF previousHeight = undefined THEN "first" ELSE "",
                IF previousHeight = undefined THEN 0 ELSE scrollHeight - previousHeight),
          onlyEchoes)

----------------------------------------------------------------------------
(* A caller invokes scrollToBottom *)

ScrollToBottom ==
  \E scrollBehavior \in CallBehaviors, waitForPendingScroll \in BOOLEAN :
    /\ phase = "task"
    /\ FreeSlots # {}
    /\ stimuli < MaxStimuli
    /\ LET slot == CHOOSE i \in FreeSlots : \A j \in FreeSlots : i <= j
           w2 == scrollToBottom(World, scrollBehavior, waitForPendingScroll, slot)
           pending == [promise EXCEPT ![slot] =
                         [st |-> "pending", targetScrollTop |-> targetScrollTop(World),
                          reached |-> FALSE]]
       IN /\ Commit(w2)
          /\ promise' = Settle(pending, w2)
          /\ onlyEchoes' = (onlyEchoes \/ (~escapedFromLock /\ ~scrollEvent /\ timers = <<>>))
          /\ ev' = Event("scrollToBottom", IF waitForPendingScroll THEN "wait" ELSE "", slot)
          /\ stimuli' = stimuli + 1
          /\ UNCHANGED <<hostTurn, runFrames>>

----------------------------------------------------------------------------
(* Frame callbacks and timers *)

AnimateFrame ==
  /\ InFrameCallbacks("animateScroll")
  /\ \E tickDelta \in (IF lastTick = undefined THEN {0} ELSE TickDeltas) :
       LET cb == Head(rafQueue)
           w0 == FrameHead(World)
       IN Step(FrameNext(animateScroll(w0, cb, tickDelta)),
               Event("animateScroll", AnimateBranch(w0, cb), 0), onlyEchoes)

LastTickResetFrame ==
  /\ InFrameCallbacks("lastTickReset")
  /\ Step(FrameNext(lastTickReset(FrameHead(World), Head(rafQueue))),
          Event("lastTickReset", "", 0), onlyEchoes)

ResizeResetFrame ==
  /\ InFrameCallbacks("resizeReset")
  /\ Step(FrameNext(resizeReset(FrameHead(World), Head(rafQueue))),
          Event("resizeReset", "", 0), onlyEchoes)

TimerHead(kind) == phase = "task" /\ timers # <<>> /\ Head(timers).kind = kind

ScrollEvalTimer ==
  /\ TimerHead("scrollEval")
  /\ LET cb == Head(timers)
         w0 == [World EXCEPT !.timers = Tail(@)]
     IN Step(scrollEval(w0, cb),
             Event("scrollEval", ScrollEvalBranch(w0, cb), Direction(cb)), onlyEchoes)

ResizeClearTimer ==
  /\ TimerHead("resizeClear")
  /\ Step(resizeClear([World EXCEPT !.timers = Tail(@)], Head(timers)),
          Event("resizeClear", "", Head(timers).captured), onlyEchoes)

Next ==
  \/ Mount
  \/ Unmount
  \/ UserScroll
  \/ Wheel
  \/ ContentResize
  \/ DeliverScroll
  \/ DeliverResize
  \/ ScrollToBottom
  \/ AnimateFrame
  \/ LastTickResetFrame
  \/ ResizeResetFrame
  \/ ScrollEvalTimer
  \/ ResizeClearTimer

Spec == Init /\ [][Next]_vars

\* The host has a notification to deliver, a frame callback or a timer to run:
\* one of DeliverScroll, DeliverResize, the three frame callbacks and the two
\* timers is enabled.
HostHasWork ==
  \/ phase = "task" /\ scrollEvent
  \/ resizeEntry /\ resizeObserver /\ (phase = "observe" \/ (phase = "task" /\ rafQueue = <<>>))
  \/ rafQueue # <<>> /\ (phase = "task" \/ (phase = "raf" /\ frameLeft > 0))
  \/ phase = "task" /\ timers # <<>>

\* The event loop does not stop while it has something to run.
Fairness == WF_hostTurn(HostHasWork /\ hostTurn' = ~hostTurn)

FairSpec == Spec /\ Fairness

----------------------------------------------------------------------------
(* The spring alone: the default spring, a fixed target, no user and no caller. *)
(* The run is the one the first resize notification starts.  The timers, due    *)
(* after 1ms, run before the next rendering update begins, and every update     *)
(* begins with its scroll step.                                                 *)

\* useStickToBottom() without options.
NoOptions ==
  [damping |-> undefined, stiffness |-> undefined, mass |-> undefined,
   resizeBehavior |-> Keyword("undefined"), initialBehavior |-> Keyword("undefined")]

InitSpring == \E top \in SpringStarts : InitWith(NoOptions, top)

\* AnimateFrame, counted.
RunFrame ==
  /\ InFrameCallbacks("animateScroll")
  /\ \E tickDelta \in (IF lastTick = undefined THEN {0} ELSE TickDeltas) :
       LET cb == Head(rafQueue)
           w0 == FrameHead(World)
           w2 == FrameNext(animateScroll(w0, cb, tickDelta))
       IN /\ Commit(w2)
          /\ promise' = Settle(promise, w2)
          /\ ev' = Event("animateScroll", AnimateBranch(w0, cb), 0)
          /\ hostTurn' = ~hostTurn
          /\ runFrames' = runFrames + 1
          /\ UNCHANGED <<stimuli, onlyEchoes>>

\* No rendering update begins while a timer is due.
TimersFirst == phase = "task" => timers = <<>>

\* An update does not begin past its scroll step while a scroll event is pending.
ScrollStepFirst == phase = "task" => ~scrollEvent

NextSpring ==
  \/ Mount
  \/ TimersFirst /\ DeliverScroll
  \/ TimersFirst /\ ScrollStepFirst /\ DeliverResize
  \/ TimersFirst /\ ScrollStepFirst /\ RunFrame
  \/ TimersFirst /\ ScrollStepFirst /\ LastTickResetFrame
  \/ TimersFirst /\ ScrollStepFirst /\ ResizeResetFrame
  \/ ScrollEvalTimer
  \/ ResizeClearTimer

SpringSpec == InitSpring /\ [][NextSpring]_vars /\ Fairness

----------------------------------------------------------------------------
(* mergeBehaviors alone: applied once to a list of entries.  The result is     *)
(* stored where scrollToBottom stores it, in state.behavior.                    *)

\* What the fields of an entry may hold: the damping is unset or one of two
\* values, the stiffness and the mass are unset or set.
DampingValues == {undefined, 10, 20}
FieldValues == {undefined, 10}

\* The entries: an absent argument, the keywords, and objects with any of the
\* three fields set.
BehaviorEntries ==
  {Keyword("undefined"), Keyword("instant"), Keyword("smooth")}
    \cup {Spring(d, s, m) : d \in DampingValues, s \in FieldValues, m \in FieldValues}

BehaviorLists == UNION {[1..n -> BehaviorEntries] : n \in 0..MaxBehaviors}

MergeStep ==
  /\ ev.op = "init"
  /\ \E list \in BehaviorLists :
       /\ behavior' = mergeBehaviors(list)
       /\ ev' = Event("mergeBehaviors", "", list)
  /\ UNCHANGED <<current, elListeners, elScrollTop, scrollHeight, scrollEvent,
                 resizeObserver, previousHeight, resizeEntry, optionsRef, lastScrollTop,
                 ignoreScrollToTop, resizeDifference, animation, lastTick, velocity,
                 accumulated, escapedFromLock, isAtBottom, listeners, rafQueue, timers,
                 phase, frameLeft, promise, stimuli, runFrames, hostTurn, onlyEchoes>>

InitMerge == InitWith(NoOptions, 0)

NextMerge == MergeStep

MergeSpec == InitMerge /\ [][NextMerge]_vars

----------------------------------------------------------------------------
(* The calls alone: the element is attached and rests at the target after the *)
(* first run; callers invoke scrollToBottom with any entry as scrollBehavior,  *)
(* and the frames of their runs find the offset at the target.                 *)

\* The hook mounted, the run of the first observation over, every callback it
\* left behind run.
InitSettled ==
  \E options \in OptionsSet :
    /\ current = TRUE
    /\ elListeners = TRUE
    /\ elScrollTop = BaseHeight - MIN_SCROLL_AMOUNT_PX - ClientHeight
    /\ scrollHeight = BaseHeight
    /\ scrollEvent = FALSE
    /\ resizeObserver = TRUE
    /\ previousHeight = BaseHeight
    /\ resizeEntry = FALSE
    /\ optionsRef = options
    /\ lastScrollTop = BaseHeight - MIN_SCROLL_AMOUNT_PX - ClientHeight
    /\ ignoreScrollToTop = undefined
    /\ resizeDifference = 0
    /\ animation = undefined
    /\ lastTick = undefined
    /\ behavior = NoBehavior
    /\ velocity = 0
    /\ accumulated = 0
    /\ escapedFromLock = FALSE
    /\ isAtBottom = TRUE
    /\ listeners = {}
    /\ rafQueue = <<>>
    /\ timers = <<>>
    /\ phase = "task"
    /\ frameLeft = 0
    /\ promise = [i \in 1..MaxCalls |-> Idle]
    /\ stimuli = 0
    /\ runFrames = 0
    /\ hostTurn = FALSE
    /\ onlyEchoes = TRUE
    /\ ev = Event("init", "", 0)

\* ScrollToBottom with any entry as scrollBehavior; the step records the entry.
CallStep ==
  \E scrollBehavior \in BehaviorEntries, waitForPendingScroll \in BOOLEAN :
    /\ phase = "task"
    /\ FreeSlots # {}
    /\ stimuli < MaxStimuli
    /\ LET slot == CHOOSE i \in FreeSlots : \A j \in FreeSlots : i <= j
           w2 == scrollToBottom(World, scrollBehavior, waitForPendingScroll, slot)
           pending == [promise EXCEPT ![slot] =
                         [st |-> "pending", targetScrollTop |-> targetScrollTop(World),
                          reached |-> FALSE]]
       IN /\ Commit(w2)
          /\ promise' = Settle(pending, w2)
          /\ ev' = Event("scrollToBottom", IF waitForPendingScroll THEN "wait" ELSE "",
                         <<slot, scrollBehavior>>)
          /\ stimuli' = stimuli + 1
          /\ UNCHANGED <<hostTurn, runFrames, onlyEchoes>>

NextCall ==
  \/ CallStep
  \/ AnimateFrame
  \/ LastTickResetFrame

CallSpec == InitSettled /\ [][NextCall]_vars

----------------------------------------------------------------------------
(* Content streaming in: the content of an attached element at rest grows by   *)
(* equal amounts, as lines of equal height are appended, and the host delivers *)
(* the observations, runs the frames of the runs they start and the timers.    *)

\* The height one appended line adds.
GrowthStep == 5000

StreamGrow ==
  LET w1 == [World EXCEPT !.scrollHeight = @ + GrowthStep, !.resizeEntry = resizeObserver]
  IN Stimulus(w1, Event("contentResize", "", GrowthStep), onlyEchoes)

NextStream ==
  \/ StreamGrow
  \/ DeliverScroll
  \/ DeliverResize
  \/ AnimateFrame
  \/ LastTickResetFrame
  \/ ResizeResetFrame
  \/ ScrollEvalTimer
  \/ ResizeClearTimer

StreamSpec == InitSettled /\ [][NextStream]_vars

----------------------------------------------------------------------------
(* The user has escaped: the element is attached, its first run is over, and   *)
(* the user has scrolled from the bottom to the top, which the evaluation of   *)
(* the notification has classified.  From there the user may also stop partway *)
(* down, farther from the bottom than the threshold.                           *)

\* An offset between the top and the threshold's distance from the bottom.
PartwayOffset == 2000

InitEscaped ==
  \E options \in OptionsSet :
    /\ current = TRUE
    /\ elListeners = TRUE
    /\ elScrollTop = 0
    /\ scrollHeight = BaseHeight
    /\ scrollEvent = FALSE
    /\ resizeObserver = TRUE
    /\ previousHeight = BaseHeight
    /\ resizeEntry = FALSE
    /\ optionsRef = options
    /\ lastScrollTop = 0
    /\ ignoreScrollToTop = undefined
    /\ resizeDifference = 0
    /\ animation = undefined
    /\ lastTick = undefined
    /\ behavior = NoBehavior
    /\ velocity = 0
    /\ accumulated = 0
    /\ escapedFromLock = TRUE
    /\ isAtBottom = FALSE
    /\ listeners = {}
    /\ rafQueue = <<>>
    /\ timers = <<>>
    /\ phase = "task"
    /\ frameLeft = 0
    /\ promise = [i \in 1..MaxCalls |-> Idle]
    /\ stimuli = 0
    /\ runFrames = 0
    /\ hostTurn = FALSE
    /\ onlyEchoes = FALSE
    /\ ev = Event("init", "", 0)

UserScrollPartway ==
  /\ current
  /\ elScrollTop # PartwayOffset
  /\ Stimulus(ElementSetScrollTop(World, PartwayOffset),
              Event("userScroll", "partway", PartwayOffset), onlyEchoes)

NextEscaped ==
  \/ Next
  \/ UserScrollPartway

EscapedSpec == InitEscaped /\ [][NextEscaped]_vars

----------------------------------------------------------------------------
(* The hook rendered over an empty content box: the element has nothing to     *)
(* scroll until the content arrives.                                           *)

InitEmpty ==
  \E options \in OptionsSet :
    /\ current = FALSE
    /\ elListeners = FALSE
    /\ elScrollTop = 0
    /\ scrollHeight = ClientHeight
    /\ scrollEvent = FALSE
    /\ resizeObserver = FALSE
    /\ previousHeight = undefined
    /\ resizeEntry = FALSE
    /\ optionsRef = options
    /\ lastScrollTop = undefined
    /\ ignoreScrollToTop = undefined
    /\ resizeDifference = 0
    /\ animation = undefined
    /\ lastTick = undefined
    /\ behavior = NoBehavior
    /\ velocity = 0
    /\ accumulated = 0
    /\ escapedFromLock = FALSE
    /\ isAtBottom = TRUE
    /\ listeners = {}
    /\ rafQueue = <<>>
    /\ timers = <<>>
    /\ phase = "task"
    /\ frameLeft = 0
    /\ promise = [i \in 1..MaxCalls |-> Idle]
    /\ stimuli = 0
    /\ runFrames = 0
    /\ hostTurn = FALSE
    /\ onlyEchoes = TRUE
    /\ ev = Event("init", "", 0)

EmptySpec == InitEmpty /\ [][Next]_vars

----------------------------------------------------------------------------
(* The lock state and the scroll classifier *)

\* C1: while every scroll notification since the call was an echo of a write of
\* the core and no wheel notification arrived, the lock is not escaped and
\* isAtBottom is true.
EchoesAreNotUserScrolls == onlyEchoes => (~escapedFromLock /\ isAtBottom)

\* C1: an echo that reports a lower offset than the notification before it has
\* been evaluated.
DecreasingEchoEvaluated == onlyEchoes /\ ev = Event("scrollEval", "echo", -1)

\* C2, as stated: once the evaluation of a scroll notification that reports a
\* lower offset than the notification before it has run, the lock is escaped, and
\* an escaped lock stays escaped until the evaluation of a notification that
\* reports a higher offset.
DecreaseEscapesUntilIncrease ==
  /\ [](ev.op = "scrollEval" /\ ev.arg = -1 => escapedFromLock)
  /\ [][escapedFromLock /\ ~escapedFromLock' => ev'.op = "scrollEval" /\ ev'.arg = 1]_vars

\* C2: once the evaluation of a scroll notification that reports a lower offset
\* than the notification before it has run, and was not skipped (the offset not
\* above the target, no resize difference pending, not the offset the core wrote),
\* the lock is escaped; an escaped lock stays escaped until such an evaluation of
\* a higher offset, or until a shrink is reconciled near the bottom.
ClassifiedDecreaseEscapesUntilIncrease ==
  /\ [](ev = Event("scrollEval", "classified", -1) => escapedFromLock)
  /\ [][escapedFromLock /\ ~escapedFromLock'
          => \/ ev' = Event("scrollEval", "classified", 1)
             \/ ev'.op = "resizeCallback" /\ ev'.arg < 0 /\ isNearBottom(World)]_vars

\* C2: the evaluation of a decrease has escaped a lock that a run holds near the
\* bottom.
DecreaseClassified ==
  /\ ev = Event("scrollEval", "classified", -1)
  /\ escapedFromLock
  /\ isNearBottom(World)

\* C3: a wheel notification with a negative deltaY leaves the lock escaped and
\* isAtBottom false, wherever the viewport is and whether or not a run is active;
\* a wheel notification with another deltaY changes neither.
WheelUpEscapesAtOnce ==
  [][ev'.op = "handleWheel" /\ stimuli' # stimuli
       => IF ev'.arg < 0
            THEN escapedFromLock' /\ ~isAtBottom'
            ELSE escapedFromLock' = escapedFromLock /\ isAtBottom' = isAtBottom]_vars

\* C3: the wheel turned up within the sticking distance of the bottom while a run
\* had a frame pending.
WheelUpNearBottomDuringRun ==
  /\ ev.op = "handleWheel" /\ ev.arg < 0
  /\ current /\ isNearBottom(World)
  /\ animation # undefined
  /\ escapedFromLock /\ ~isAtBottom

\* The value updateIsAtBottom() assigns in the step to the next state.
Recomputed == IF escapedFromLock' THEN FALSE ELSE isNearBottom(World)' \/ isAtBottom

\* C4: but for scrollToBottom, which forces isAtBottom true, and a wheel up, which
\* forces it false, a step changes isAtBottom only to: false if the lock is
\* escaped, else isNearBottom or the previous isAtBottom; the scroll
\* classification and the reconciliation of a shrink assign that value.
IsAtBottomIsRecomputed ==
  [][/\ isAtBottom' # isAtBottom
          => \/ ev'.op = "scrollToBottom" /\ isAtBottom'
             \/ ev'.op = "handleWheel" /\ ev'.arg < 0 /\ ~isAtBottom'
             \/ ev'.op \in {"scrollEval", "resizeCallback"} /\ isAtBottom' = Recomputed
     /\ ev'.op = "scrollEval" /\ ev'.branch = "classified" => isAtBottom' = Recomputed
     /\ ev'.op = "resizeCallback" /\ ev'.arg < 0 /\ isNearBottom(World)
          => isAtBottom' = Recomputed]_vars

\* C4: a classification has run with the lock escaped within the sticking distance.
RecomputedWhileEscapedNearBottom ==
  /\ ev.op = "scrollEval" /\ ev.branch = "classified"
  /\ escapedFromLock
  /\ isNearBottom(World)
  /\ ~isAtBottom

----------------------------------------------------------------------------
(* The resize reconciler and the scroll classifier *)

\* C5: the notification of a growth, the scroll notification and its evaluation
\* while the resize difference is pending each leave escapedFromLock as it was.
SuppressedScrollKeepsLock ==
  [][(\/ ev'.op = "resizeCallback" /\ ev'.arg > 0
      \/ ev'.op = "handleScroll"
      \/ ev'.op = "scrollEval" /\ resizeDifference # 0)
       => escapedFromLock' = escapedFromLock]_vars

\* C5: with the lock escaped, the evaluation of the higher offset that a growth
\* caused has run while the difference of that growth was pending.
SuppressedIncreaseWhileEscaped ==
  /\ ev = Event("scrollEval", "suppressed", 1)
  /\ resizeDifference > 0
  /\ escapedFromLock

\* Both notifications delivered, none pending.
Delivered(w) == [w EXCEPT !.scrollEvent = FALSE, !.resizeEntry = FALSE]

\* The deferred evaluation of the notification handleScroll took last.
EvalLast(w) ==
  scrollEval([w EXCEPT !.timers = SubSeq(@, 1, Len(@) - 1)], w.timers[Len(w.timers)])

ScrollFirst == EvalLast(resizeCallback(handleScroll(Delivered(World))))
ResizeFirst == EvalLast(handleScroll(resizeCallback(Delivered(World))))

BothPending == scrollEvent /\ elListeners /\ resizeEntry /\ resizeObserver

\* C6: with a resize notification and a scroll notification pending, the scroll
\* notification first and the resize notification before its evaluation leaves
\* escapedFromLock and isAtBottom as the resize notification first does.
DeliveryOrderIndependent ==
  BothPending => /\ ScrollFirst.escapedFromLock = ResizeFirst.escapedFromLock
                 /\ ScrollFirst.isAtBottom = ResizeFirst.isAtBottom

\* C6: an anchored growth has moved the viewport down with the lock escaped, both
\* notifications are pending, and either order keeps the lock escaped.
AnchoredGrowthPendingWhileEscaped ==
  /\ BothPending
  /\ ev.op = "contentResize" /\ ev.branch = "anchored" /\ ev.arg > 0
  /\ previousHeight # undefined
  /\ lastScrollTop # undefined /\ elScrollTop > lastScrollTop
  /\ escapedFromLock
  /\ ScrollFirst.escapedFromLock

----------------------------------------------------------------------------
(* The promises of scrollToBottom *)

\* C8: every promise that resolved true is of a caller whose run ended with the
\* offset at the target, and the promises a frame resolves because the user
\* escaped resolve false.
ResolvesTrueOnlyIfReached ==
  /\ [](\A i \in 1..MaxCalls : promise[i].st = "true" => promise[i].reached)
  /\ [][\A i \in 1..MaxCalls :
          (/\ ev' = Event("animateScroll", "interrupted", 0)
           /\ promise[i].st = "pending"
           /\ promise'[i].st # "pending") => promise'[i].st = "false"]_vars

\* A frame callback of a run towards the present target is pending.
FollowUpQueued ==
  \E k \in 1..Len(rafQueue) :
    /\ rafQueue[k].kind = "animateScroll"
    /\ rafQueue[k].targetScrollTop = targetScrollTop(World)

FollowUpChained == ev = Event("animateScroll", "followUp", 0)

\* The element is at the target.
Arrived == current /\ elScrollTop >= targetScrollTop(World)

\* C9: when the target has grown during a run, the frame that finds the offset at
\* the target the run started with chains a run towards the present target and
\* resolves the promises of the callers, true, the original caller's with its
\* target reached; a resolved promise is not resolved again; and the offset then
\* reaches the present target unless the user escapes or the element is detached.
GrowingTargetIsFollowed ==
  /\ [](FollowUpChained => current /\ isAtBottom /\ FollowUpQueued)
  /\ [][\A i \in 1..MaxCalls :
          /\ (/\ ev' = Event("animateScroll", "followUp", 0)
              /\ rafQueue # <<>> /\ Head(rafQueue).kind = "animateScroll"
              /\ promise[i].st = "pending")
               => /\ promise'[i].st = "true"
                  /\ promise[i].targetScrollTop = Head(rafQueue).targetScrollTop
                       => promise'[i].reached
          /\ (promise[i].st \in {"true", "false"} /\ promise'[i] # promise[i])
               => ev' = Event("scrollToBottom", ev'.branch, i)]_vars
  /\ FollowUpChained ~> (Arrived \/ ~isAtBottom \/ ~current)

\* C9: a frame has found the offset at the target its run started with and below
\* the present one, and has resolved a caller's promise true.
FollowUpChainedForCaller ==
  /\ FollowUpChained
  /\ elScrollTop > 0 /\ elScrollTop < targetScrollTop(World)
  /\ \E i \in 1..MaxCalls : promise[i].st = "true" /\ promise[i].reached

----------------------------------------------------------------------------
(* The spring animator *)

\* A frame callback of a run takes its spring step.
SpringStepTaken ==
  /\ ev' = Event("animateScroll", "step", 0)
  /\ runFrames' = runFrames + 1

\* C10, as stated: with a fixed target and no user input, every frame of a run
\* strictly decreases the distance to the target, never past it, and the run
\* takes a bounded number of frames.
EveryFrameApproaches ==
  /\ [][SpringStepTaken => /\ elScrollTop' > elScrollTop
                           /\ elScrollTop' <= targetScrollTop(World)]_vars
  /\ [](runFrames <= MaxRunFrames)

\* C10: with a fixed target and no user input, no frame of a run moves the offset
\* away from the target or past it, every frame with time elapsed since the frame
\* before it (all but the first of a run that starts with no last tick) strictly
\* decreases the distance, the run takes a bounded number of frames, and once
\* the element is attached it ends with the offset at the target.
FramesWithElapsedTimeApproach ==
  /\ [][SpringStepTaken => /\ elScrollTop' >= elScrollTop
                           /\ elScrollTop' <= targetScrollTop(World)
                           /\ lastTick # undefined => elScrollTop' > elScrollTop]_vars
  /\ [](runFrames <= MaxRunFrames)
  /\ current ~> [](Arrived /\ animation = undefined)

\* C10: a frame has found the offset at the target after at least three spring
\* steps, the last of them shorter than the minimum step.
SpringRunCompleted ==
  /\ ev = Event("animateScroll", "completed", 0)
  /\ runFrames > 3
  /\ Arrived
  /\ velocity > 0 /\ velocity < MIN_SCROLL_AMOUNT_PX

----------------------------------------------------------------------------
(* The runs of the animator *)

\* The animator frame callbacks in a queue of frame callbacks.
AnimatorFrames(q) == {k \in 1..Len(q) : q[k].kind = "animateScroll"}

\* C11: a frame of a run that starts with isAtBottom false ends the run in that
\* frame: it writes no scroll offset, requests no animator frame, leaves no run
\* and no waiter registered, and every pending promise resolves false.
InterruptedFrameEndsRun ==
  [][(ev'.op = "animateScroll" /\ ~isAtBottom) =>
       /\ elScrollTop' = elScrollTop
       /\ ignoreScrollToTop' = ignoreScrollToTop
       /\ animation' = undefined
       /\ behavior' = NoBehavior
       /\ Cardinality(AnimatorFrames(rafQueue')) = Cardinality(AnimatorFrames(rafQueue)) - 1
       /\ listeners' = {}
       /\ \A i \in 1..MaxCalls : promise[i].st = "pending" => promise'[i].st = "false"]_vars

\* C11: a frame of a run found isAtBottom false with the offset short of the
\* target, and a caller's promise resolved false.
FrameInterruptedForCaller ==
  /\ ev.op = "animateScroll"
  /\ ~isAtBottom
  /\ current /\ elScrollTop < targetScrollTop(World)
  /\ \E i \in 1..MaxCalls : promise[i].st = "false"

\* C12: at most one animator frame callback is scheduled at any time.
AtMostOneAnimatorFrame == Cardinality(AnimatorFrames(rafQueue)) <= 1

\* C13: a scrollToBottom call without wait made while a frame of a run is
\* scheduled leaves exactly one animator frame scheduled, its own (the frames of
\* the superseded run are cancelled), and no promise that was pending before the
\* call is still pending after it.
SupersedingCallCancelsRun ==
  [][(/\ ev'.op = "scrollToBottom" /\ ev'.branch = ""
      /\ AnimatorFrames(rafQueue) # {}) =>
       /\ Cardinality(AnimatorFrames(rafQueue')) = 1
       /\ animation' = rafQueue'[CHOOSE k \in AnimatorFrames(rafQueue') : TRUE].id
       /\ \A i \in 1..MaxCalls : promise[i].st = "pending" => promise'[i].st # "pending"]_vars

\* C14: a scrollToBottom call with wait made while a frame of a run is scheduled
\* cancels no frame and requests none, and the promises pending after it (its own
\* and those of the callers already waiting) resolve in the same step with the
\* same value.
WaitingCallJoinsRun ==
  /\ [][(/\ ev'.op = "scrollToBottom" /\ ev'.branch = "wait"
         /\ AnimatorFrames(rafQueue) # {}) =>
          /\ rafQueue' = rafQueue
          /\ promise'[ev'.arg].st = "pending"]_vars
  /\ [][\A i, j \in 1..MaxCalls :
          (/\ promise[i].st = "pending" /\ promise[j].st = "pending"
           /\ promise'[i].st # "pending") => promise'[j].st = promise'[i].st]_vars

----------------------------------------------------------------------------
(* scrollToBottom while not at the bottom *)

----------------------------------------------------------------------------
(* Attaching and detaching *)

\* C16: when the element is detached, no animator frame callback stays scheduled
\* and no promise of scrollToBottom stays pending.
DetachEndsRun ==
  [][ev'.op = "unmount" =>
       /\ AnimatorFrames(rafQueue') = {}
       /\ animation' = undefined
       /\ \A i \in 1..MaxCalls : promise'[i].st # "pending"]_vars

\* C17: a scrollToBottom call made while no element is attached fails at once:
\* it requests no frame, registers no waiter, starts no run, and its promise is
\* neither left pending nor resolved true.
CallWhileDetachedFails ==
  [][(ev'.op = "scrollToBottom" /\ ~current) =>
       /\ rafQueue' = rafQueue
       /\ animation' = animation
       /\ listeners' = listeners
       /\ promise'[ev'.arg].st \notin {"pending", "true"}]_vars

----------------------------------------------------------------------------
(* The resize reconciler *)

\* C18: the observer callback for a shrink clears the lock and sets isAtBottom
\* when the offset is near the bottom, also when the user had escaped; when it
\* is not near the bottom it leaves the lock and isAtBottom as they are and
\* requests no animator frame; in neither case does it write the offset.
ShrinkNearBottomSticks ==
  [][(ev'.op = "resizeCallback" /\ ev'.arg < 0) =>
       /\ elScrollTop' = elScrollTop
       /\ isNearBottom(World) => ~escapedFromLock' /\ isAtBottom'
       /\ ~isNearBottom(World) =>
            /\ escapedFromLock' = escapedFromLock
            /\ isAtBottom' = isAtBottom
            /\ animation' = animation
            /\ Cardinality(AnimatorFrames(rafQueue')) = Cardinality(AnimatorFrames(rafQueue))]_vars

\* C18: the observer callback for a shrink has found the offset near the bottom
\* and the lock is clear with isAtBottom true, after the user had escaped and
\* the run had stopped short of the target.
ShrinkUnescaped ==
  /\ ev.op = "resizeCallback" /\ ev.arg < 0
  /\ ~escapedFromLock /\ isAtBottom
  /\ ~onlyEchoes
  /\ animation = undefined /\ AnimatorFrames(rafQueue) = {}
  /\ timers = <<>>
  /\ current /\ isNearBottom(World)
  /\ elScrollTop < targetScrollTop(World)

\* C19: the observer callback for a difference of zero or more (the first
\* observation included) writes no offset and changes neither isAtBottom nor the
\* lock; when isAtBottom is true it leaves a frame of a run requested, the one
\* already held if there is one and a new one otherwise, and resolves no waiter;
\* when isAtBottom is false it requests no animator frame.
GrowthFollowsOnlyAtBottom ==
  [][(ev'.op = "resizeCallback" /\ ev'.arg >= 0) =>
       /\ elScrollTop' = elScrollTop
       /\ isAtBottom' = isAtBottom
       /\ escapedFromLock' = escapedFromLock
       /\ promise' = promise
       /\ listeners \subseteq listeners'
       /\ isAtBottom =>
            /\ animation' # undefined
            /\ \E k \in AnimatorFrames(rafQueue') : rafQueue'[k].id = animation'
            /\ animation # undefined =>
                 /\ animation' = animation
                 /\ Cardinality(AnimatorFrames(rafQueue')) = Cardinality(AnimatorFrames(rafQueue))
            /\ animation = undefined =>
                 Cardinality(AnimatorFrames(rafQueue')) = Cardinality(AnimatorFrames(rafQueue)) + 1
       /\ ~isAtBottom =>
            /\ animation' = animation
            /\ Cardinality(AnimatorFrames(rafQueue')) = Cardinality(AnimatorFrames(rafQueue))]_vars

\* C19: the observer callback has run for a growth while the user had escaped
\* far from the bottom, and no run is under way.
GrowthWhileEscaped ==
  /\ ev.op = "resizeCallback" /\ ev.arg > 0
  /\ current
  /\ escapedFromLock /\ ~isAtBottom
  /\ ~isNearBottom(World)
  /\ animation = undefined /\ AnimatorFrames(rafQueue) = {}

\* C20: scroll and wheel notifications reach handleScroll and handleWheel only
\* while the element they come from is the attached one: once the ref is
\* detached the element has no listener of the hook left.
NoStaleSubscription ==
  /\ [][ev'.op \in {"handleScroll", "handleWheel"} => current]_vars
  /\ [](~current => ~elListeners)

----------------------------------------------------------------------------
(* The behavior merger *)

\* The entries of a list that are objects defining field f.
Defining(list, f) == {i \in 1..Len(list) : list[i].kind = "object" /\ list[i][f] # undefined}

\* The value of field f in the last entry that defines it, else the default.
LastDefined(list, f) ==
  IF Defining(list, f) = {}
    THEN DEFAULT_SPRING_BEHAVIOR[f]
    ELSE list[CHOOSE i \in Defining(list, f) : \A j \in Defining(list, f) : j <= i][f]

Layered(list) ==
  Spring(LastDefined(list, "damping"), LastDefined(list, "stiffness"),
         LastDefined(list, "mass"))

Merged == ev.op = "mergeBehaviors"

\* C21: for a list without "instant", mergeBehaviors returns an object holding,
\* for each of damping, stiffness and mass, the value of the last entry that
\* defines the field, or the default when none does; no field is left undefined.
MergeTakesLastDefined ==
  (Merged /\ \A i \in 1..Len(ev.arg) : ev.arg[i].kind # "instant") =>
    /\ behavior = Layered(ev.arg)
    /\ behavior.kind = "object"
    /\ \A f \in {"damping", "stiffness", "mass"} : behavior[f] # undefined

\* C21: a list of three entries without "instant" has been merged: the damping
\* of the first entry is overridden by the third, the stiffness of the second
\* is kept, and no entry defines the mass.
MergedThreeLayers ==
  /\ Merged /\ Len(ev.arg) = 3
  /\ \A i \in 1..3 : ev.arg[i].kind = "object"
  /\ ev.arg[1].damping = 10 /\ ev.arg[3].damping = 20 /\ behavior.damping = 20
  /\ ev.arg[2].stiffness = 10 /\ ev.arg[3].stiffness = undefined /\ behavior.stiffness = 10
  /\ behavior.mass = DEFAULT_SPRING_BEHAVIOR.mass

\* C22: mergeBehaviors returns "instant" exactly when some entry is "instant"
\* and every entry after it is "instant" or absent.
InstantUnlessOverridden ==
  Merged =>
    (behavior = Keyword("instant")
       <=> \E i \in 1..Len(ev.arg) :
             /\ ev.arg[i].kind = "instant"
             /\ \A j \in (i + 1)..Len(ev.arg) : ev.arg[j].kind \in {"instant", "undefined"})

\* The entries after the last "instant" entry of a list that has one.
AfterLastInstant(list) ==
  LET instants == {i \in 1..Len(list) : list[i].kind = "instant"}
      last == CHOOSE i \in instants : \A j \in instants : j <= i
  IN SubSeq(list, last + 1, Len(list))

\* An "instant" entry is in the list and the result is not "instant".
InstantOverridden ==
  /\ Merged
  /\ \E i \in 1..Len(ev.arg) : ev.arg[i].kind = "instant"
  /\ behavior.kind = "object"

\* C23, as stated: when a non-instant entry follows an "instant" entry, the
\* result holds the fields of the entries after the "instant" entry merged over
\* the defaults; no value of an entry before it survives.
InstantResetsOverrides ==
  InstantOverridden => behavior = Layered(AfterLastInstant(ev.arg))

\* C23: an "instant" entry resets nothing: when a non-instant entry follows the
\* last "instant" entry, the result holds for each field the value of the last
\* entry of the whole list that defines it, before or after the "instant"
\* entry, or the default.
InstantKeepsOverrides ==
  InstantOverridden => behavior = Layered(ev.arg)

\* C23: the damping of an entry before "instant" is in the result, next to the
\* stiffness of the entry after it.
OverrideSurvivedInstant ==
  /\ Merged /\ Len(ev.arg) = 3
  /\ ev.arg[1].kind = "object" /\ ev.arg[1].damping = 10
  /\ ev.arg[2].kind = "instant"
  /\ ev.arg[3].kind = "object" /\ ev.arg[3].damping = undefined /\ ev.arg[3].stiffness = 10
  /\ behavior.damping = 10 /\ behavior.stiffness = 10

----------------------------------------------------------------------------
(* The behavior of a call *)

\* Field f of an entry, undefined when the entry is not an object.
Field(e, f) == IF e.kind = "object" THEN e[f] ELSE undefined

\* Field f by precedence: the call, the run (for a call that waits), the
\* options, the default.
Precedence(call, run, wait, options, f) ==
  IF Field(call, f) # undefined THEN Field(call, f)
  ELSE IF wait /\ Field(run, f) # undefined THEN Field(run, f)
  ELSE IF options[f] # undefined THEN options[f]
  ELSE DEFAULT_SPRING_BEHAVIOR[f]

----------------------------------------------------------------------------
(* The writes of the scroll offset *)

\* The branches of the frame callback and of the deferred evaluation that assign
\* state.scrollTop: the spring step, the instant jump, the overscroll correction.
CoreWrite(e) ==
  \/ e.op = "animateScroll" /\ e.branch \in {"step", "instant"}
  \/ e.op = "scrollEval" /\ e.branch = "overscroll"

----------------------------------------------------------------------------
(* isAtBottom at a call *)

\* C26: the step of a scrollToBottom call leaves isAtBottom true, whether or not
\* the lock is escaped and however far the viewport is from the bottom; the call
\* itself runs no frame and moves nothing, so the offset is the one it found.
CallSetsIsAtBottomAtOnce ==
  [][ev'.op = "scrollToBottom"
       => /\ isAtBottom'
          /\ elScrollTop' = elScrollTop
          /\ escapedFromLock' = escapedFromLock
          /\ scrollHeight' = scrollHeight]_vars

\* C26: a call has just been made with the lock escaped and the viewport farther
\* from the bottom than the threshold: isAtBottom is true while the offset is
\* below the target and the frame of the run has not run.
CalledEscapedFarFromBottom ==
  /\ ev.op = "scrollToBottom"
  /\ current
  /\ escapedFromLock /\ ~isNearBottom(World)
  /\ isAtBottom
  /\ elScrollTop < targetScrollTop(World)
  /\ \E k \in AnimatorFrames(rafQueue) : rafQueue[k].id = animation


----------------------------------------------------------------------------
(* The instant run *)

\* C27: a frame of a run whose behavior is 'instant', starting with isAtBottom
\* true and the offset short of the target, leaves the element at the target of
\* the present geometry without touching the spring's velocity or tick, ends the
\* run in that frame (no run and no waiter registered, no animator frame
\* requested) and every pending promise resolves true.
InstantFrameJumpsAndCompletes ==
  [][(/\ ev'.op = "animateScroll"
      /\ rafQueue # <<>> /\ Head(rafQueue).behavior.kind = "instant"
      /\ isAtBottom /\ current
      /\ elScrollTop < Min(Head(rafQueue).targetScrollTop, targetScrollTop(World)))
       => /\ elScrollTop' = targetScrollTop(World)
          /\ velocity' = velocity /\ lastTick' = lastTick /\ accumulated' = 0
          /\ animation' = undefined
          /\ Cardinality(AnimatorFrames(rafQueue')) = Cardinality(AnimatorFrames(rafQueue)) - 1
          /\ listeners' = {}
          /\ \A i \in 1..MaxCalls : promise[i].st = "pending" => promise'[i].st = "true"]_vars

\* C27: the frame of an instant run has jumped to the target of content that grew
\* after the call, and the caller's promise resolved true with the target reached.
InstantRunCompleted ==
  /\ ev = Event("animateScroll", "instant", 0)
  /\ current /\ scrollHeight > BaseHeight
  /\ elScrollTop = targetScrollTop(World)
  /\ animation = undefined /\ AnimatorFrames(rafQueue) = {}
  /\ \E i \in 1..MaxCalls : promise[i].st = "true" /\ promise[i].reached


----------------------------------------------------------------------------
(* The pending resize difference *)

\* C28: a resize difference recorded by an observation does not stay: from every
\* state in which state.resizeDifference is not zero, the frame callback and the
\* timer the observation requested lead to a state in which it is zero again, once
\* the observations have ceased.
ResizeDifferenceReturnsToZero == (resizeDifference # 0) ~> (resizeDifference = 0)

\* C28: the timer of the last observation, which recorded a growth, has run after
\* its frame and has put state.resizeDifference back to zero.
ResizeDifferenceCleared ==
  /\ ev.op = "resizeClear" /\ ev.arg > 0
  /\ resizeDifference = 0
  /\ ~resizeEntry
  /\ \A k \in 1..Len(rafQueue) : rafQueue[k].kind # "resizeReset"
  /\ \A k \in 1..Len(timers) : timers[k].kind # "resizeClear"


\* A reset requested by an observation is still to run: its frame callback is
\* queued, or its timer is queued behind the first one.
LaterResetPending ==
  \/ \E k \in 1..Len(rafQueue) : rafQueue[k].kind = "resizeReset"
  \/ \E k \in 2..Len(timers) : timers[k].kind = "resizeClear"

\* C29: the timer of an observation leaves state.resizeDifference as it is when
\* a later observation has recorded it, that is, while the reset that later
\* observation requested is still to run; equal differences included.
ClearLeavesLaterDifference ==
  [][(ev'.op = "resizeClear" /\ resizeDifference # 0 /\ LaterResetPending)
       => resizeDifference' = resizeDifference]_vars


----------------------------------------------------------------------------
(* The direction of a coalesced scroll *)

\* C30: the evaluation of a notification that reported an offset below the one
\* the last write had recorded, not above its target and with no resize
\* difference pending, classifies it and leaves the lock escaped, whatever the
\* offset of the notification before it.
CoalescedScrollUpEscapes ==
  [][(/\ ev'.op = "scrollEval"
      /\ timers # <<>> /\ Head(timers).kind = "scrollEval"
      /\ Head(timers).ignoreScrollToTop # undefined
      /\ Head(timers).scrollTop < Head(timers).ignoreScrollToTop
      /\ Head(timers).scrollTop <= Head(timers).targetScrollTop
      /\ resizeDifference = 0)
       => /\ ev'.branch = "classified"
          /\ escapedFromLock'
          /\ ~isAtBottom']_vars

\* C30: a notification whose offset was above the one of the notification before
\* it has been classified and the lock is escaped: the offset was below the one
\* a write had recorded.
IncreaseClassifiedAsScrollUp ==
  /\ ev = Event("scrollEval", "classified", 1)
  /\ escapedFromLock /\ ~isAtBottom
  /\ current /\ lastScrollTop # undefined /\ lastScrollTop > 0


----------------------------------------------------------------------------
(* Un-escaping by scrolling down *)

\* The evaluation at the head of the timers is the one of a notification of the
\* user that reported a higher offset than the one before it, with the lock
\* escaped and no resize difference pending.
EscapedIncreaseDue ==
  /\ timers # <<>> /\ Head(timers).kind = "scrollEval"
  /\ Head(timers).scrollTop > Head(timers).lastScrollTop
  /\ Head(timers).scrollTop <= Head(timers).targetScrollTop
  /\ Head(timers).scrollTop # Head(timers).ignoreScrollToTop
  /\ escapedFromLock
  /\ resizeDifference = 0

\* C31: the evaluation of such a notification ends with the lock not escaped and
\* with isAtBottom true exactly if the viewport is then within the threshold of
\* the bottom.
IncreaseUnescapesByProximity ==
  [][(ev'.op = "scrollEval" /\ EscapedIncreaseDue)
       => /\ ~escapedFromLock'
          /\ isAtBottom' <=> isNearBottom(World)']_vars

\* C31: the evaluation of such a notification ends with the lock not escaped and
\* with isAtBottom true exactly if the viewport is then within the threshold of
\* the bottom or isAtBottom was true before, as a scrollToBottom call made while
\* escaped leaves it; farther than the threshold, isAtBottom stays as it was.
IncreaseUnescapesSticky ==
  [][(ev'.op = "scrollEval" /\ EscapedIncreaseDue)
       => /\ ~escapedFromLock'
          /\ isAtBottom' <=> (isNearBottom(World)' \/ isAtBottom)]_vars

\* C31: the escaped user has scrolled partway down and nothing else has happened:
\* the evaluation has cleared the lock's escape and, the viewport being farther
\* from the bottom than the threshold, isAtBottom is still false.
UnescapedFarFromBottom ==
  /\ ev = Event("scrollEval", "classified", 1)
  /\ stimuli = 1
  /\ current /\ elScrollTop = PartwayOffset
  /\ ~isNearBottom(World)
  /\ ~escapedFromLock /\ ~isAtBottom


\* The state EscapedSpec starts from, but for the history variables.
EscapedAtTop ==
  /\ current /\ elListeners /\ resizeObserver
  /\ elScrollTop = 0 /\ lastScrollTop = 0
  /\ scrollHeight = BaseHeight /\ previousHeight = BaseHeight
  /\ ~scrollEvent /\ ~resizeEntry
  /\ ignoreScrollToTop = undefined /\ resizeDifference = 0
  /\ animation = undefined /\ lastTick = undefined /\ behavior = NoBehavior
  /\ velocity = 0 /\ accumulated = 0
  /\ escapedFromLock /\ ~isAtBottom
  /\ listeners = {} /\ rafQueue = <<>> /\ timers = <<>>
  /\ phase = "task" /\ frameLeft = 0
  /\ \A i \in 1..MaxCalls : promise[i].st = "idle"


----------------------------------------------------------------------------
(* Scroll notifications while a resize difference is pending *)

Abs(x) == IF x < 0 THEN -x ELSE x

\* The evaluation at the head of the timers runs with a resize difference pending.
EvalDueWhileResizePending ==
  /\ timers # <<>> /\ Head(timers).kind = "scrollEval"
  /\ resizeDifference # 0

\* The offset of that notification differs from the one it is compared with by
\* more than the pending difference.
ScrollExceedsResize ==
  Abs(Head(timers).scrollTop - Head(timers).lastScrollTop) > Abs(resizeDifference)

----------------------------------------------------------------------------
(* The behavior of the resize reconciler's runs *)

\* C33: an observation that starts a run (isAtBottom true, no shrink, no frame
\* of a run requested) stores the behavior merged from the options and
\* initialBehavior when it is the first one of its observer, and from the options
\* and resizeBehavior when it is a later one, whatever height the observation
\* before it saw.
InitialBehaviorOnFirstObservationOnly ==
  [][(/\ ev'.op = "resizeCallback"
      /\ isAtBottom /\ animation = undefined
      /\ previousHeight = undefined \/ ContentHeight(World) >= previousHeight)
       => behavior' = mergeBehaviors(<<OptionsEntry(World),
                                       IF previousHeight = undefined
                                         THEN optionsRef.initialBehavior
                                         ELSE optionsRef.resizeBehavior>>)]_vars


----------------------------------------------------------------------------
(* The lock and isAtBottom together *)

\* C34: in no reachable state are escapedFromLock and isAtBottom both true.
NeverEscapedAndAtBottom == ~(escapedFromLock /\ isAtBottom)

\* C34: the only step that makes escapedFromLock and isAtBottom both true is a
\* scrollToBottom call made while the lock is escaped, which sets isAtBottom and
\* leaves the lock as it is; every other handler that ends with the lock escaped
\* ends with isAtBottom false, unless both were true before it.
OnlyACallMakesEscapedAtBottom ==
  [][(escapedFromLock' /\ isAtBottom' /\ ~(escapedFromLock /\ isAtBottom))
       => (ev'.op = "scrollToBottom" /\ escapedFromLock /\ ~isAtBottom)]_vars

\* C34: the run of a call made while the lock was escaped has completed at the
\* target, the caller's promise resolved true, and the lock is still escaped
\* with isAtBottom true.
RunCompletedStillEscaped ==
  /\ ev = Event("animateScroll", "completed", 0)
  /\ current /\ elScrollTop >= targetScrollTop(World)
  /\ escapedFromLock /\ isAtBottom
  /\ animation = undefined /\ AnimatorFrames(rafQueue) = {}
  /\ \E i \in 1..MaxCalls : promise[i].st = "true" /\ promise[i].reached


----------------------------------------------------------------------------
(* The waiters *)

\* The frame callback whose handle state.animation holds is in the frame queue.
RunFrameScheduled ==
  /\ animation # undefined
  /\ \E k \in AnimatorFrames(rafQueue) : rafQueue[k].id = animation

\* C35: while state.listeners holds a waiter the frame callback of the run is
\* scheduled; the waiters leave the set all together, a caller's promise is
\* pending exactly while its waiter is in the set and is resolved in the step
\* that removes it; and every waiter in the set is eventually removed.
NoWaiterStranded ==
  /\ [](listeners # {} => RunFrameScheduled)
  /\ [](\A i \in 1..MaxCalls : promise[i].st = "pending" <=> i \in listeners)
  /\ [][listeners \ listeners' # {} => listeners \cap listeners' = {}]_vars
  /\ \A i \in 1..MaxCalls : (i \in listeners) ~> (i \notin listeners)

\* C35: every caller's waiter has been called and removed: a frame has completed
\* the run at the target, the promises are all resolved true and no waiter is left.
AllWaitersResolved ==
  /\ ev = Event("animateScroll", "completed", 0)
  /\ listeners = {}
  /\ \A i \in 1..MaxCalls : promise[i].st = "true" /\ promise[i].reached


----------------------------------------------------------------------------
(* The direction of the animator *)

\* C36: state.velocity and state.accumulated are never negative, and a frame of
\* a run that writes the offset (a spring step or an instant jump) leaves the
\* element at an offset not lower than the one it read.
AnimatorNeverMovesUp ==
  /\ [](velocity >= 0 /\ accumulated >= 0)
  /\ [][(ev'.op = "animateScroll" /\ ev'.branch \in {"step", "instant"})
          => elScrollTop' >= elScrollTop]_vars

\* C36: a frame of a run has computed a velocity and a call has superseded that
\* run short of the target: the frame of the new run is scheduled and will start
\* from the velocity the superseded run had reached.
VelocityCarriedToNewRun ==
  /\ ev.op = "scrollToBottom" /\ ev.branch = "" /\ ev.arg = 2
  /\ promise[1].st = "true" /\ ~promise[1].reached
  /\ velocity > 0 /\ lastTick # undefined
  /\ current /\ elScrollTop < targetScrollTop(World)
  /\ RunFrameScheduled


----------------------------------------------------------------------------
(* How isAtBottom becomes true *)

\* C37: a step that takes isAtBottom from false to true is a scrollToBottom call
\* of a caller, or the evaluation of a scroll notification or the observation of
\* a shrink that ends with the viewport within the threshold of the bottom; no
\* wheel notification, growth, frame or timer does it, and none does it farther
\* from the bottom than the threshold.
IsAtBottomRisesOnlyNearBottomOrByCall ==
  [][(~isAtBottom /\ isAtBottom')
       => \/ ev'.op = "scrollToBottom"
          \/ /\ ev'.op = "scrollEval"
             /\ isNearBottom(World)'
          \/ /\ ev'.op = "resizeCallback" /\ ev'.arg < 0
             /\ isNearBottom(World)']_vars

\* C37: the escaped user has scrolled down to 30px from the end and nothing else
\* has happened: the evaluation has cleared the escape and made isAtBottom true.
ScrolledBackNearBottom ==
  /\ ev = Event("scrollEval", "classified", 1)
  /\ stimuli = 1
  /\ \A i \in 1..MaxCalls : promise[i].st = "idle"
  /\ current /\ elScrollTop = MaxScrollTop(World) - 3000
  /\ isNearBottom(World)
  /\ ~escapedFromLock /\ isAtBottom

====
